---------------------------- MODULE Spec2Model ----------------------------
(***************************************************************************)
(* Model of src/Fast-Api.py: three HTTP handlers that build a docker       *)
(* command, run it through run_docker_command, parse its stdout and map    *)
(* the outcome to a status code.                                           *)
(*                                                                         *)
(* Texts are sequences of symbols.  A symbol is one character, or a run of *)
(* characters that the code only ever treats as a unit: "id:" and          *)
(* "token:" (the prefixes of parse_chirpstack_output), "root_token" (the   *)
(* key of parse_root_tokens' pattern), one JSON token (parse_edgex_output),*)
(* or a fixed piece of a message or of a command line.                     *)
(***************************************************************************)
EXTENDS Integers, Sequences, FiniteSets

\* ------------------------------------------------------------------ bounds
\* Longest stdout, in symbols, of the concurrent specification.
SmallLen == 1
\* Longest path parameter, in characters, of the name-validation specification.
MaxNameLen == 2
\* Longest create-api-key stdout, in symbols.
MaxChirpLen == 5
\* Longest exhaustively enumerated generate-password stdout, in JSON tokens.
MaxJsonLen == 3
\* Most members of a generated JSON object.
MaxMembers == 2
\* Most pieces of a generated secret-store file.
MaxChunks == 5

\* ------------------------------------------------------------- text helpers
\* All sequences over A of length 0..n.
SeqsUpTo(A, n) == UNION {[1..k -> A] : k \in 0..n}

\* The characters str.strip() removes.
Whitespace == {" ", "\n", "\t", "\r"}

RECURSIVE LStrip(_)
LStrip(s) == IF s # <<>> /\ Head(s) \in Whitespace THEN LStrip(Tail(s)) ELSE s

RECURSIVE RStrip(_)
RStrip(s) ==
    IF s # <<>> /\ s[Len(s)] \in Whitespace
    THEN RStrip(SubSeq(s, 1, Len(s) - 1))
    ELSE s

\* str.strip()
Strip(s) == RStrip(LStrip(s))

\* str.split(sep) for a one-symbol separator: the pieces between occurrences.
RECURSIVE SplitAcc(_, _, _, _)
SplitAcc(s, sep, cur, acc) ==
    IF s = <<>> THEN Append(acc, cur)
    ELSE IF Head(s) = sep THEN SplitAcc(Tail(s), sep, <<>>, Append(acc, cur))
    ELSE SplitAcc(Tail(s), sep, Append(cur, Head(s)), acc)

Split(s, sep) == SplitAcc(s, sep, <<>>, <<>>)

\* A Python dict as a function from its keys.
EmptyDict == [k \in {} |-> <<>>]

Put(d, k, v) == [x \in (DOMAIN d) \cup {k} |-> IF x = k THEN v ELSE d[x]]

\* dict.get(key, default)
Get(d, k, default) == IF k \in DOMAIN d THEN d[k] ELSE default

\* ------------------------------------------------------------ configuration
CONTAINERS_0 ==
    [edgex |-> "edgex-security-proxy-setup",
     chirpstack |-> "chirpstack-chirpstack-1",
     root |-> "edgex-security-secretstore-setup"]

ROOT_FILE_PATH_0 == "/vault/config/assets/resp-init.json"

\* ------------------------------------------------------- run_docker_command
\* What subprocess.run can do with a command: the process ran and exited with
\* a return code, or subprocess.run itself raised (the launch failed).
ProcExit(rc, out, err) ==
    [kind |-> "exit", returncode |-> rc, stdout |-> out, stderr |-> err]

ProcRaise(msg) == [kind |-> "raise", msg |-> msg]

run_docker_command(proc) ==
    IF proc.kind = "raise" THEN [error |-> proc.msg]
    ELSE IF proc.returncode # 0 THEN [error |-> Strip(proc.stderr)]
    ELSE [output |-> Strip(proc.stdout)]

\* --------------------------------------------------- parse_chirpstack_output
\* line.startswith(prefix), prefix one symbol ("id:" or "token:").
StartsWith(line, prefix) == line # <<>> /\ Head(line) = prefix

\* line.split(prefix)[-1]: what follows the LAST occurrence of prefix.
LastPiece(line, prefix) ==
    LET pieces == Split(line, prefix) IN pieces[Len(pieces)]

\* ChirpScan keeping the first line of each prefix instead of the last.
RECURSIVE ChirpScanFirstWins(_, _)
ChirpScanFirstWins(lines, api_key_data) ==
    IF lines = <<>> THEN api_key_data
    ELSE LET line == Head(lines) IN
         ChirpScanFirstWins(Tail(lines),
            IF StartsWith(line, "id:") /\ "id" \notin DOMAIN api_key_data
            THEN Put(api_key_data, "id", Strip(LastPiece(line, "id:")))
            ELSE IF StartsWith(line, "token:") /\ "token" \notin DOMAIN api_key_data
            THEN Put(api_key_data, "token", Strip(LastPiece(line, "token:")))
            ELSE api_key_data)

RECURSIVE ChirpScan(_, _)
ChirpScan(lines, api_key_data) ==
    IF lines = <<>> THEN api_key_data
    ELSE LET line == Head(lines) IN
         ChirpScan(Tail(lines),
            IF StartsWith(line, "id:")
            THEN Put(api_key_data, "id", Strip(LastPiece(line, "id:")))
            ELSE IF StartsWith(line, "token:")
            THEN Put(api_key_data, "token", Strip(LastPiece(line, "token:")))
            ELSE api_key_data)

ChirpError(output) ==
    [error |-> <<"Failed to parse ChirpStack API key">>, raw_output |-> output]

parse_chirpstack_output(output) ==
    LET api_key_data == ChirpScan(Split(output, "\n"), EmptyDict) IN
    IF DOMAIN api_key_data = {} THEN ChirpError(output) ELSE api_key_data

\* ------------------------------------------------ create_api_key validation
Letters == {"a", "e", "m", "n", "Z"}
Digits == {"7"}
\* The class [a-zA-Z0-9_\-]
NameClass == Letters \cup Digits \cup {"_", "-"}

\* Length of the longest prefix of s made of characters of class.
RECURSIVE RunLen(_, _)
RunLen(s, class) ==
    IF s # <<>> /\ Head(s) \in class THEN 1 + RunLen(Tail(s), class) ELSE 0

\* re.match(r'^[a-zA-Z0-9_\-]+$', name): the class run must be non-empty and
\* end where Python's $ matches, which is at the end of the string and also
\* just before a newline that ends the string.
NameReMatch(name) ==
    LET n == RunLen(name, NameClass) IN
    /\ n >= 1
    /\ \/ n = Len(name)
       \/ n = Len(name) - 1 /\ name[Len(name)] = "\n"

Placeholder == <<":", "n", "a", "m", "e">>

\* The condition of line 137 is the negation of this.
NameAccepted(name) ==
    ~ (Strip(name) = <<>> \/ name = Placeholder \/ ~ NameReMatch(name))

\* ---------------------------------------------------------- json.loads
\* One symbol of a generate-password stdout is one JSON token, or a blank
\* between tokens.
JsonPunct == {"{", "}", "[", "]", ":", ","}
StrTokens == {"\"username\"", "\"password\"", "\"a\"", "\"\""}
NumTokens == {"0", "1"}
JsonTokens == JsonPunct \cup StrTokens \cup NumTokens \cup {"null", " "}

\* Python values.
PyStr(s) == [t |-> "str", s |-> s]
PyInt(n) == [t |-> "int", n |-> n]
PyNone == [t |-> "None"]
PyList(items) == [t |-> "list", items |-> items]
PyDict(d) == [t |-> "dict", d |-> d]

\* The text a string token decodes to.
StrText(tok) ==
    CASE tok = "\"username\"" -> <<"username">>
      [] tok = "\"password\"" -> <<"password">>
      [] tok = "\"a\"" -> <<"a">>
      [] OTHER -> <<>>

ScalarValue(tok) ==
    CASE tok \in StrTokens -> PyStr(StrText(tok))
      [] tok = "0" -> PyInt(0)
      [] tok = "1" -> PyInt(1)
      [] OTHER -> PyNone

\* bool(value)
Truthy(v) ==
    CASE v.t = "str" -> v.s # <<>>
      [] v.t = "int" -> v.n # 0
      [] v.t = "list" -> v.items # <<>>
      [] v.t = "dict" -> DOMAIN v.d # {}
      [] OTHER -> FALSE

RECURSIVE SkipBlank(_, _)
SkipBlank(toks, i) ==
    IF i <= Len(toks) /\ toks[i] = " " THEN SkipBlank(toks, i + 1) ELSE i

ParseFail == [ok |-> FALSE]
ParseOk(v, next) == [ok |-> TRUE, val |-> v, next |-> next]

\* The decoder: a value at position i, then what follows it.
RECURSIVE ParseValue(_, _)
RECURSIVE ParseItems(_, _, _)
RECURSIVE ParseMembers(_, _, _)

ParseValue(toks, i0) ==
    LET i == SkipBlank(toks, i0) IN
    IF i > Len(toks) THEN ParseFail
    ELSE LET tok == toks[i] IN
         CASE tok \in StrTokens \cup NumTokens \cup {"null"} ->
                ParseOk(ScalarValue(tok), i + 1)
           [] tok = "[" ->
                LET j == SkipBlank(toks, i + 1) IN
                IF j <= Len(toks) /\ toks[j] = "]"
                THEN ParseOk(PyList(<<>>), j + 1)
                ELSE ParseItems(toks, j, <<>>)
           [] tok = "{" ->
                LET j == SkipBlank(toks, i + 1) IN
                IF j <= Len(toks) /\ toks[j] = "}"
                THEN ParseOk(PyDict(EmptyDict), j + 1)
                ELSE ParseMembers(toks, j, EmptyDict)
           [] OTHER -> ParseFail

\* After "[" or ",": a value, then "," and more, or "]".
ParseItems(toks, i, items) ==
    LET r == ParseValue(toks, i) IN
    IF ~ r.ok THEN ParseFail
    ELSE LET j == SkipBlank(toks, r.next) IN
         IF j > Len(toks) THEN ParseFail
         ELSE IF toks[j] = "," THEN ParseItems(toks, j + 1, Append(items, r.val))
         ELSE IF toks[j] = "]" THEN ParseOk(PyList(Append(items, r.val)), j + 1)
         ELSE ParseFail

\* After "{" or ",": a string key, ":", a value, then "," and more, or "}".
\* A key given twice keeps its last value.
ParseMembers(toks, i0, d) ==
    LET i == SkipBlank(toks, i0) IN
    IF i > Len(toks) \/ toks[i] \notin StrTokens THEN ParseFail
    ELSE LET c == SkipBlank(toks, i + 1) IN
         IF c > Len(toks) \/ toks[c] # ":" THEN ParseFail
         ELSE LET r == ParseValue(toks, c + 1) IN
              IF ~ r.ok THEN ParseFail
              ELSE LET j == SkipBlank(toks, r.next)
                       d2 == Put(d, StrText(toks[i]), r.val)
                   IN IF j > Len(toks) THEN ParseFail
                      ELSE IF toks[j] = "," THEN ParseMembers(toks, j + 1, d2)
                      ELSE IF toks[j] = "}" THEN ParseOk(PyDict(d2), j + 1)
                      ELSE ParseFail

\* json.loads(text): one value and nothing but blanks after it; ok = FALSE
\* stands for json.JSONDecodeError.
JsonLoads(toks) ==
    LET r == ParseValue(toks, 1) IN
    IF r.ok /\ SkipBlank(toks, r.next) = Len(toks) + 1 THEN r ELSE ParseFail

\* ------------------------------------------------------- parse_edgex_output
\* An exception that leaves the function.
Raises(exc) == [raised |-> exc]

EdgexEmpty(output) ==
    [error |-> <<"EdgeX response was empty">>, raw_output |-> output]

EdgexUnexpected(output) ==
    [error |-> <<"Unexpected EdgeX response">>, raw_output |-> output]

\* parse_edgex_output without the test "if not parsed".
parse_edgex_output_unchecked(output) ==
    LET r == JsonLoads(output) IN
    IF ~ r.ok THEN EdgexUnexpected(output)
    ELSE IF r.val.t # "dict" THEN Raises("AttributeError")
    ELSE [username |-> Get(r.val.d, <<"username">>, PyStr(<<"N/A">>)),
          password |-> Get(r.val.d, <<"password">>, PyStr(<<"No password found">>))]

\* parsed.get(...) exists on a dict only: any other truthy value raises
\* AttributeError, which the except clause (json.JSONDecodeError) lets through.
parse_edgex_output(output) ==
    LET r == JsonLoads(output) IN
    IF ~ r.ok THEN EdgexUnexpected(output)
    ELSE IF ~ Truthy(r.val) THEN EdgexEmpty(output)
    ELSE IF r.val.t # "dict" THEN Raises("AttributeError")
    ELSE [username |-> Get(r.val.d, <<"username">>, PyStr(<<"N/A">>)),
          password |-> Get(r.val.d, <<"password">>, PyStr(<<"No password found">>))]

\* -------------------------------------------------------- parse_root_tokens
\* re.findall(r'"root_token"\s*:\s*"([^"]+)"', output).  A text is a sequence
\* of characters in which the run root_token is one symbol.
Quote == "\""

RECURSIVE SkipSpace(_, _)
SkipSpace(text, i) ==
    IF i <= Len(text) /\ text[i] \in Whitespace THEN SkipSpace(text, i + 1) ELSE i

\* Length of the run of characters other than the quote that starts at i.
RECURSIVE NonQuoteRun(_, _)
NonQuoteRun(text, i) ==
    IF i <= Len(text) /\ text[i] # Quote THEN 1 + NonQuoteRun(text, i + 1) ELSE 0

NoMatch == [ok |-> FALSE]

\* MatchAt for the pattern without its two \s*.
MatchAtNoBlanks(text, i) ==
    IF ~ (i + 4 <= Len(text) /\ text[i] = Quote /\ text[i + 1] = "root_token"
          /\ text[i + 2] = Quote /\ text[i + 3] = ":" /\ text[i + 4] = Quote)
    THEN NoMatch
    ELSE LET n == NonQuoteRun(text, i + 5) IN
         IF n >= 1 /\ i + n + 5 <= Len(text)
         THEN [ok |-> TRUE, last |-> i + n + 5,
               group |-> SubSeq(text, i + 5, i + n + 4)]
         ELSE NoMatch

\* One attempt of the pattern at position i.  Each greedy repetition is
\* followed by a character it cannot itself match, so backtracking into it
\* never helps and the attempt is this single pass.
MatchAt(text, i) ==
    IF ~ (i + 2 <= Len(text) /\ text[i] = Quote /\ text[i + 1] = "root_token"
          /\ text[i + 2] = Quote)
    THEN NoMatch
    ELSE LET c == SkipSpace(text, i + 3) IN
         IF ~ (c <= Len(text) /\ text[c] = ":") THEN NoMatch
         ELSE LET q == SkipSpace(text, c + 1) IN
              IF ~ (q <= Len(text) /\ text[q] = Quote) THEN NoMatch
              ELSE LET n == NonQuoteRun(text, q + 1) IN
                   IF n >= 1 /\ q + n + 1 <= Len(text)
                   THEN [ok |-> TRUE, last |-> q + n + 1,
                         group |-> SubSeq(text, q + 1, q + n)]
                   ELSE NoMatch

\* The scan of findall: leftmost match, then on from the end of that match.
RECURSIVE FindAllFrom(_, _, _)
FindAllFrom(text, i, found) ==
    IF i > Len(text) THEN found
    ELSE LET m == MatchAt(text, i) IN
         IF m.ok THEN FindAllFrom(text, m.last + 1, Append(found, m.group))
         ELSE FindAllFrom(text, i + 1, found)

FindAll(text) == FindAllFrom(text, 1, <<>>)

NoTokensMessage == <<"No root tokens found.">>

parse_root_tokens(output) ==
    LET tokens == FindAll(output) IN
    IF tokens = <<>> THEN [message |-> NoTokensMessage, raw_output |-> output]
    ELSE [tokens |-> tokens]

\* ------------------------------------------------------------------- state
VARIABLES
    CONTAINERS,      \* the module-level dict of container names
    ROOT_FILE_PATH,  \* the module-level path of the secret-store file
    endpoint,        \* per request: the handler that serves it
    param,           \* per request: the path parameter (username or name)
    pc,              \* per request: the step the handler is at
    valid,           \* per request: the outcome of the handler's validation
    cmd,             \* per request: the command line built
    proc,            \* per request: what subprocess.run did
    result,          \* per request: the dict run_docker_command returned
    parsed,          \* per request: the dict the parser returned
    response,        \* per request: the JSONResponse the handler returned
    steps            \* per request: the steps taken so far, in order

vars == <<CONTAINERS, ROOT_FILE_PATH, endpoint, param, pc, valid, cmd, proc,
          result, parsed, response, steps>>

Endpoints == {"generate_password", "create_api_key", "get_tokens"}

\* Not set yet.
None == [none |-> TRUE]

JSONResponse(content, status_code) ==
    [content |-> content, status_code |-> status_code]

\* ----------------------------------------------------------------- handlers
\* Line 137 for create_api_key; the other two handlers check nothing.
Validates(e, p) == IF e = "create_api_key" THEN NameAccepted(p) ELSE TRUE

\* Lines 112-115, 143-147, 167.
CommandLine(e, p, containers, path) ==
    CASE e = "generate_password" ->
            <<"docker exec ", containers.edgex,
              " ./secrets-config proxy adduser --user \"">> \o p
            \o <<"\" --tokenTTL 60 --jwtTTL 119m --useRootToken">>
      [] e = "create_api_key" ->
            <<"docker exec ", containers.chirpstack,
              " chirpstack --config /etc/chirpstack create-api-key --name '">>
            \o p \o <<"'">>
      [] OTHER -> <<"docker exec ", containers.root, " cat ", path>>

\* The parser each handler applies to result["output"].
ParserOf(e, output) ==
    CASE e = "generate_password" -> parse_edgex_output(output)
      [] e = "create_api_key" -> parse_chirpstack_output(output)
      [] OTHER -> parse_root_tokens(output)

InvalidName == [error |-> <<"Invalid or missing 'name' parameter">>]

\* HandlerResponse with get_tokens returning the parser's own "no tokens"
\* dict, raw output included.
HandlerResponseRaw(e, p, ok, res, prs) ==
    IF ~ ok THEN JSONResponse(InvalidName, 404)
    ELSE IF "error" \in DOMAIN res THEN JSONResponse(res, 500)
    ELSE CASE e \in {"generate_password", "create_api_key"} ->
                IF "error" \in DOMAIN prs THEN JSONResponse(prs, 404)
                ELSE IF e = "create_api_key"
                THEN JSONResponse([name |-> p, result |-> prs], 200)
                ELSE JSONResponse(
                        [message |-> <<"User ">> \o p \o <<" created successfully.">>,
                         password |-> prs.password], 200)
           [] OTHER ->
                IF "tokens" \notin DOMAIN prs \/ prs.tokens = <<>>
                THEN JSONResponse(prs, 404)
                ELSE JSONResponse(prs, 200)

\* The return statements of the three handlers.
HandlerResponse(e, p, ok, res, prs) ==
    IF ~ ok THEN JSONResponse(InvalidName, 404)
    ELSE IF "error" \in DOMAIN res THEN JSONResponse(res, 500)
    ELSE CASE e = "generate_password" ->
                IF "error" \in DOMAIN prs THEN JSONResponse(prs, 404)
                ELSE JSONResponse(
                        [message |-> <<"User ">> \o p \o <<" created successfully.">>,
                         password |-> prs.password], 200)
           [] e = "create_api_key" ->
                IF "error" \in DOMAIN prs THEN JSONResponse(prs, 404)
                ELSE JSONResponse([name |-> p, result |-> prs], 200)
           [] OTHER ->
                IF "tokens" \notin DOMAIN prs \/ prs.tokens = <<>>
                THEN JSONResponse([message |-> NoTokensMessage], 404)
                ELSE JSONResponse(prs, 200)

\* Request r is being served and its handler is at step.
At(r, step) == r \in DOMAIN pc /\ pc[r] = step

Step(r, to) ==
    /\ pc' = [pc EXCEPT ![r] = to]
    /\ steps' = [steps EXCEPT ![r] = Append(@, pc[r])]

Validate(r) ==
    /\ At(r, "Validate")
    /\ valid' = [valid EXCEPT ![r] = Validates(endpoint[r], param[r])]
    /\ Step(r, IF valid'[r] THEN "BuildCommand" ELSE "MapStatus")
    /\ UNCHANGED <<CONTAINERS, ROOT_FILE_PATH, endpoint, param, cmd, proc,
                   result, parsed, response>>

\* BuildCommand writing the container it addressed into another entry of the
\* module-level dict.
BuildCommandRemembering(r) ==
    /\ r \in DOMAIN pc /\ pc[r] = "BuildCommand"
    /\ CONTAINERS' = [CONTAINERS EXCEPT !.root =
                        IF endpoint[r] = "generate_password" THEN CONTAINERS.edgex
                        ELSE CONTAINERS.chirpstack]
    /\ cmd' = [cmd EXCEPT ![r] =
                 CommandLine(endpoint[r], param[r], CONTAINERS, ROOT_FILE_PATH)]
    /\ pc' = [pc EXCEPT ![r] = "Execute"]
    /\ steps' = [steps EXCEPT ![r] = Append(@, pc[r])]
    /\ UNCHANGED <<ROOT_FILE_PATH, endpoint, param, valid, proc, result,
                   parsed, response>>

BuildCommand(r) ==
    /\ At(r, "BuildCommand")
    /\ cmd' = [cmd EXCEPT ![r] =
                 CommandLine(endpoint[r], param[r], CONTAINERS, ROOT_FILE_PATH)]
    /\ Step(r, "Execute")
    /\ UNCHANGED <<CONTAINERS, ROOT_FILE_PATH, endpoint, param, valid, proc,
                   result, parsed, response>>

\* result = run_docker_command(cmd), and the test "error" in result.  What
\* the process does is not the program's choice: Procs[e] lists the outcomes
\* considered for endpoint e.
Execute(r, Procs) ==
    /\ At(r, "Execute")
    /\ \E p \in Procs[endpoint[r]] :
          /\ proc' = [proc EXCEPT ![r] = p]
          /\ result' = [result EXCEPT ![r] = run_docker_command(p)]
    /\ Step(r, IF "error" \in DOMAIN result'[r] THEN "MapStatus" ELSE "Parse")
    /\ UNCHANGED <<CONTAINERS, ROOT_FILE_PATH, endpoint, param, valid, cmd,
                   parsed, response>>

\* parsed_result = parse_...(result["output"]); an exception the parser lets
\* through ends the handler without a return.
Parse(r) ==
    /\ At(r, "Parse")
    /\ parsed' = [parsed EXCEPT ![r] = ParserOf(endpoint[r], result[r].output)]
    /\ Step(r, IF "raised" \in DOMAIN parsed'[r] THEN "Raised" ELSE "MapStatus")
    /\ UNCHANGED <<CONTAINERS, ROOT_FILE_PATH, endpoint, param, valid, cmd,
                   proc, result, response>>

MapStatus(r) ==
    /\ At(r, "MapStatus")
    /\ response' = [response EXCEPT ![r] =
          HandlerResponse(endpoint[r], param[r], valid[r], result[r], parsed[r])]
    /\ Step(r, "Done")
    /\ UNCHANGED <<CONTAINERS, ROOT_FILE_PATH, endpoint, param, valid, cmd,
                   proc, result, parsed>>

\* The state when the requests Reqs have been routed to their handlers.
InitWith(Reqs, Params) ==
    /\ CONTAINERS = CONTAINERS_0
    /\ ROOT_FILE_PATH = ROOT_FILE_PATH_0
    /\ endpoint \in [Reqs -> DOMAIN Params]
    /\ param \in [Reqs -> UNION {Params[e] : e \in DOMAIN Params}]
    /\ \A r \in Reqs : param[r] \in Params[endpoint[r]]
    /\ pc = [r \in Reqs |-> "Validate"]
    /\ valid = [r \in Reqs |-> None]
    /\ cmd = [r \in Reqs |-> None]
    /\ proc = [r \in Reqs |-> None]
    /\ result = [r \in Reqs |-> None]
    /\ parsed = [r \in Reqs |-> None]
    /\ response = [r \in Reqs |-> None]
    /\ steps = [r \in Reqs |-> <<>>]

\* ------------------------------------------------------------------ inputs
\* Process outcomes that are failures: a non-zero exit with text on stderr
\* (and, once, on stdout too), and subprocess.run raising.
Failures ==
    {ProcExit(1, <<>>, <<"Error: No such container", "\n">>),
     ProcExit(125, <<"id:", "a">>, <<>>),
     ProcRaise(<<"[Errno 2] No such file or directory: '/bin/sh'">>)}

Succeeds(texts) == {ProcExit(0, t, <<>>) : t \in texts}

\* create-api-key stdout.
ChirpAlphabet == {"id:", "token:", "\n", " ", "a", "b"}
ChirpExample == <<"id:", " ", "abc123", "\n", "token:", " ", "xyz789", "\n">>
ChirpTexts == SeqsUpTo(ChirpAlphabet, MaxChirpLen) \cup {ChirpExample}

\* generate-password stdout: every short token sequence, the objects of up to
\* MaxMembers members, and every proper prefix of such an object.
KeyTokens == {"\"username\"", "\"password\"", "\"a\""}
MemberValues == {"\"a\"", "\"\"", "1", "null"}
MemberSet == {<<k, ":", v>> : k \in KeyTokens, v \in MemberValues}

RECURSIVE Join(_, _)
Join(pieces, sep) ==
    IF pieces = <<>> THEN <<>>
    ELSE IF Len(pieces) = 1 THEN Head(pieces)
    ELSE Head(pieces) \o sep \o Join(Tail(pieces), sep)

ObjectText(members) == <<"{">> \o Join(members, <<",">>) \o <<"}">>
ObjectTexts == {ObjectText(ms) : ms \in SeqsUpTo(MemberSet, MaxMembers)}
TruncatedTexts ==
    UNION {{SubSeq(t, 1, k) : k \in 1..(Len(t) - 1)} : t \in ObjectTexts}
JsonTexts ==
    SeqsUpTo(JsonTokens, MaxJsonLen) \cup ObjectTexts \cup TruncatedTexts

\* secret-store file: up to MaxChunks pieces, and the file of the example.
TokenChunks ==
    {<<Quote, "root_token", Quote, ":">>, <<Quote, "root_token", Quote>>,
     <<":">>, <<" ">>, <<Quote, "a", Quote>>, <<Quote, "b", Quote>>, <<Quote>>}

RECURSIVE Flatten(_)
Flatten(pieces) ==
    IF pieces = <<>> THEN <<>> ELSE Head(pieces) \o Flatten(Tail(pieces))

TokensExample ==
    <<"{", Quote, "root_token", Quote, ":", " ", Quote, "t1", Quote, ",", " ",
      Quote, "other", Quote, ":", " ", Quote, "x", Quote, ",", " ",
      Quote, "root_token", Quote, ":", " ", Quote, "t2", Quote, "}">>
TokenTexts ==
    {Flatten(cs) : cs \in SeqsUpTo(TokenChunks, MaxChunks)} \cup {TokensExample}

\* The outcomes of the concurrent specification: every stdout of up to
\* SmallLen symbols over a few symbols, and one full example per endpoint.
EdgexExample ==
    <<"{", "\"username\"", ":", "\"a\"", ",", "\"password\"", ":", "\"\"", "}">>
SmallProcs ==
    [e \in Endpoints |->
        Failures \cup
        Succeeds(CASE e = "generate_password" ->
                        SeqsUpTo({"1", "null", "{"}, SmallLen) \cup {EdgexExample}
                   [] e = "create_api_key" ->
                        SeqsUpTo({"id:", "a"}, SmallLen) \cup {ChirpExample}
                   [] OTHER ->
                        SeqsUpTo({Quote, "a"}, SmallLen) \cup {TokensExample})]

OneFailure == {ProcExit(1, <<>>, <<"Error: No such container", "\n">>)}
ChirpProcs == [e \in Endpoints |-> OneFailure \cup Succeeds(ChirpTexts)]
EdgexProcs == [e \in Endpoints |-> OneFailure \cup Succeeds(JsonTexts)]
TokenProcs == [e \in Endpoints |-> OneFailure \cup Succeeds(TokenTexts)]

\* Path parameters.  The route matches a non-empty segment without "/".
NameAlphabet == {"a", "Z", "7", "_", "-", " ", "'", "\n", ":", "."}
Names == (SeqsUpTo(NameAlphabet, MaxNameLen) \ {<<>>}) \cup {Placeholder}
KeyName == <<"m", "-", "7">>

Requests == {1, 2}
SmallParams ==
    [generate_password |-> {<<"a">>},
     create_api_key |-> {<<"a">>, <<"a", " ">>},
     get_tokens |-> {<<>>}]

\* ---------------------------------------------------------- specifications
\* Two requests served concurrently.  Their steps interleave freely: get_tokens
\* is a plain function, run in the server's thread pool beside the event loop;
\* the two coroutine handlers never await, so the server runs each of them
\* without interruption, which is one of the interleavings allowed here.
Init == InitWith(Requests, SmallParams)
Next ==
    \E r \in Requests :
        \/ Validate(r)
        \/ BuildCommand(r)
        \/ Execute(r, SmallProcs)
        \/ Parse(r)
        \/ MapStatus(r)
Spec == Init /\ [][Next]_vars

\* One create-api-key request, over many names.
InitName == InitWith({1}, [create_api_key |-> Names])
SpecName == InitName /\ [][Next]_vars

\* One create-api-key request, over many stdouts.
InitChirp == InitWith({1}, [create_api_key |-> {KeyName, <<"a", " ">>}])
NextChirp ==
    \E r \in Requests :
        \/ Validate(r)
        \/ BuildCommand(r)
        \/ Execute(r, ChirpProcs)
        \/ Parse(r)
        \/ MapStatus(r)
SpecChirp == InitChirp /\ [][NextChirp]_vars

\* One generate-password request, over many stdouts.
InitEdgex == InitWith({1}, [generate_password |-> {<<"a">>}])
NextEdgex ==
    \E r \in Requests :
        \/ Validate(r)
        \/ BuildCommand(r)
        \/ Execute(r, EdgexProcs)
        \/ Parse(r)
        \/ MapStatus(r)
SpecEdgex == InitEdgex /\ [][NextEdgex]_vars

\* One tokens request, over many secret-store files.
InitTokens == InitWith({1}, [get_tokens |-> {<<>>}])
NextTokens ==
    \E r \in Requests :
        \/ Validate(r)
        \/ BuildCommand(r)
        \/ Execute(r, TokenProcs)
        \/ Parse(r)
        \/ MapStatus(r)
SpecTokens == InitTokens /\ [][NextTokens]_vars

\* ------------------------------------------------------------------ claims
Took(r, step) == \E i \in 1..Len(steps[r]) : steps[r][i] = step

\* The handler of r has ended: it returned, or an exception left it.
Ended(r) == pc[r] \in {"Done", "Raised"}

Failed(p) == p.kind = "raise" \/ p.returncode # 0

\* The status the client is sent: the returned response's, and 500 when an
\* exception leaves the handler (the framework's answer to an unhandled error).
HttpStatus(r) == IF pc[r] = "Raised" THEN 500 ELSE response[r].status_code

\* C1: every handler, for every parameter and every outcome of the command
\* (launch failure, non-zero exit, exit 0 with any stdout), ends by returning a
\* JSON body with a status code in {200, 404, 500}; no exception leaves a
\* handler.
C1_NoUncaughtError ==
    \A r \in DOMAIN pc :
        /\ pc[r] # "Raised"
        /\ pc[r] = "Done" =>
              /\ response[r].status_code \in {200, 404, 500}
              /\ DOMAIN response[r].content # {}

\* C2's reading of a valid name: non-empty, only letters, digits, "_" and "-",
\* and not the placeholder.
WellFormedName(name) ==
    /\ name # <<>>
    /\ \A i \in 1..Len(name) : name[i] \in NameClass
    /\ name # Placeholder

\* C2: create_api_key accepts a name (goes on to build and run the command)
\* if and only if the name is non-empty, made only of letters, digits, "_" and
\* "-", and not the placeholder; every other name is answered with
\* 404 {"error": "Invalid or missing 'name' parameter"}.
C2_NameValidation ==
    \A r \in DOMAIN pc :
        (endpoint[r] = "create_api_key" /\ Took(r, "Validate")) =>
            /\ valid[r] <=> WellFormedName(param[r])
            /\ (pc[r] = "BuildCommand" \/ Took(r, "BuildCommand"))
                  <=> WellFormedName(param[r])
            /\ (pc[r] = "Done" /\ ~ WellFormedName(param[r])) =>
                  response[r] = JSONResponse(InvalidName, 404)

\* The error text of a failed execution: the launch error, or stderr trimmed.
ErrorText(p) == IF p.kind = "raise" THEN p.msg ELSE Strip(p.stderr)

\* C3: once a command was run and the request has ended, a process that
\* failed to launch or exited non-zero gives 500 {"error": <error text>} with
\* the parser never applied, and a process that exited 0 never gives 500.
C3_ExecutionFailure ==
    \A r \in DOMAIN pc :
        (Ended(r) /\ Took(r, "Execute")) =>
            IF Failed(proc[r])
            THEN /\ pc[r] = "Done"
                 /\ response[r] = JSONResponse([error |-> ErrorText(proc[r])], 500)
                 /\ parsed[r] = None
                 /\ ~ Took(r, "Parse")
            ELSE HttpStatus(r) # 500

StepOrder ==
    [Validate |-> 1, BuildCommand |-> 2, Execute |-> 3, Parse |-> 4,
     MapStatus |-> 5, Done |-> 6]

\* C9: the steps of a request are taken in the order Validate, BuildCommand,
\* Execute, Parse, MapStatus, none twice and none after a later one; the
\* command is run at most once; create_api_key builds and runs no command for
\* a rejected name; the parser runs only after an execution that succeeded;
\* and a request that has ended went through MapStatus and has its response.
C9_LinearPipeline ==
    \A r \in DOMAIN pc :
        LET path == Append(steps[r], pc[r]) IN
        /\ \A i \in 1..Len(path) : path[i] \in DOMAIN StepOrder
        /\ \A i, j \in 1..Len(path) :
              (i < j /\ path[i] \in DOMAIN StepOrder /\ path[j] \in DOMAIN StepOrder)
                  => StepOrder[path[i]] < StepOrder[path[j]]
        /\ Cardinality({i \in 1..Len(steps[r]) : steps[r][i] = "Execute"}) <= 1
        /\ (Took(r, "Validate") /\ ~ valid[r]) => (cmd[r] = None /\ proc[r] = None)
        /\ Took(r, "Parse") => (Took(r, "Execute") /\ ~ Failed(proc[r]))
        /\ Ended(r) => (Took(r, "MapStatus") /\ response[r] # None)

\* C10: the module-level configuration is the same in every reachable state,
\* and two requests to the same endpoint with the same parameter whose
\* commands did the same have ended the same way with the same response,
\* whatever the other did in between.
C10_Stateless ==
    /\ CONTAINERS = CONTAINERS_0
    /\ ROOT_FILE_PATH = ROOT_FILE_PATH_0
    /\ \A r1, r2 \in DOMAIN pc :
          (/\ Ended(r1) /\ Ended(r2)
           /\ endpoint[r1] = endpoint[r2]
           /\ param[r1] = param[r2]
           /\ proc[r1] = proc[r2])
          => (/\ pc[r1] = pc[r2]
              /\ parsed[r1] = parsed[r2]
              /\ response[r1] = response[r2])

\* Two requests with the same endpoint, parameter and command outcome have
\* both been answered, with 200.
C10_Witness ==
    /\ DOMAIN pc = {1, 2}
    /\ pc[1] = "Done" /\ pc[2] = "Done"
    /\ endpoint[1] = endpoint[2] /\ param[1] = param[2] /\ proc[1] = proc[2]
    /\ response[1].status_code = 200

\* The lines of a text, and the places of those that begin with prefix.
LinesOf(text) == Split(text, "\n")
LinesWith(text, prefix) ==
    {i \in 1..Len(LinesOf(text)) :
        LinesOf(text)[i] # <<>> /\ LinesOf(text)[i][1] = prefix}
Last(S) == CHOOSE i \in S : \A j \in S : j <= i

\* What follows the leading prefix of a line, trimmed.
Remainder(line) == Strip(Tail(line))

\* C4: in the text given to parse_chirpstack_output, a line that begins with
\* "id:" gives as the id exactly what follows that leading prefix, trimmed,
\* and a line that begins with "token:" gives the token likewise, also when
\* what follows contains "id:" or "token:" again; without such a line the
\* field is absent.
C4_ValueExtraction ==
    \A r \in DOMAIN pc :
        (endpoint[r] = "create_api_key" /\ Took(r, "Parse")) =>
            LET out == result[r].output IN
            \A f \in {"id", "token"} :
                LET prefix == IF f = "id" THEN "id:" ELSE "token:"
                    at == LinesWith(out, prefix)
                IN IF at = {} THEN f \notin DOMAIN parsed[r]
                   ELSE /\ f \in DOMAIN parsed[r]
                        /\ parsed[r][f] = Remainder(LinesOf(out)[Last(at)])

\* C8: of several lines beginning with the same prefix the last one gives the
\* field; the result is the parse failure carrying the raw text exactly when
\* no line begins with "id:" or "token:", and otherwise holds exactly the
\* fields found; create_api_key answers the failure with 404 and anything else
\* with 200 {"name": name, "result": the fields}.
C8_FieldSelection ==
    \A r \in DOMAIN pc :
        (endpoint[r] = "create_api_key" /\ Took(r, "Parse")) =>
            LET out == result[r].output
                ids == LinesWith(out, "id:")
                toks == LinesWith(out, "token:")
                failure == parsed[r] = ChirpError(out)
            IN /\ failure <=> (ids = {} /\ toks = {})
               /\ ~ failure =>
                    /\ DOMAIN parsed[r] =
                          (IF ids = {} THEN {} ELSE {"id"})
                          \cup (IF toks = {} THEN {} ELSE {"token"})
                    /\ ids # {} => parsed[r].id =
                          Strip(LastPiece(LinesOf(out)[Last(ids)], "id:"))
                    /\ toks # {} => parsed[r].token =
                          Strip(LastPiece(LinesOf(out)[Last(toks)], "token:"))
               /\ pc[r] = "Done" =>
                    response[r] =
                        IF failure THEN JSONResponse(ChirpError(out), 404)
                        ELSE JSONResponse([name |-> param[r], result |-> parsed[r]], 200)

\* A request answered 200 whose output had two "id:" lines with different
\* values.
C8_Witness ==
    \E r \in DOMAIN pc :
        /\ pc[r] = "Done" /\ response[r].status_code = 200
        /\ Cardinality(LinesWith(result[r].output, "id:")) = 2
        /\ \E i \in LinesWith(result[r].output, "id:") :
              Remainder(LinesOf(result[r].output)[i]) # parsed[r].id

\* The JSON grammar, as the texts it generates: every value of at most n
\* tokens written without blanks.
RECURSIVE JsonValues(_)
RECURSIVE JsonItems(_)
RECURSIVE JsonMembers(_)

JsonValues(n) ==
    IF n < 1 THEN {}
    ELSE {<<tok>> : tok \in StrTokens \cup NumTokens \cup {"null"}}
         \cup (IF n < 2 THEN {} ELSE {<<"[", "]">>, <<"{", "}">>})
         \cup {<<"[">> \o body \o <<"]">> : body \in JsonItems(n - 2)}
         \cup {<<"{">> \o body \o <<"}">> : body \in JsonMembers(n - 2)}

\* One or more values separated by commas, of at most n tokens.
JsonItems(n) ==
    JsonValues(n)
    \cup UNION {{v \o <<",">> \o rest : rest \in JsonItems(n - 1 - Len(v))} :
                v \in JsonValues(n - 2)}

\* One or more key : value members separated by commas, of at most n tokens.
JsonMembers(n) ==
    LET One(m) == {<<k, ":">> \o v : k \in StrTokens, v \in JsonValues(m - 2)} IN
    One(n)
    \cup UNION {{mem \o <<",">> \o rest : rest \in JsonMembers(n - 1 - Len(mem))} :
                mem \in One(n - 2)}

WellFormedShort == JsonValues(MaxJsonLen)

\* A text without its blanks.
Squeeze(text) == SelectSeq(text, LAMBDA tok : tok # " ")

\* Not JSON: a short text the grammar does not generate, or an object cut
\* short.
Malformed(text) ==
    \/ Len(text) <= MaxJsonLen /\ Squeeze(text) \notin WellFormedShort
    \/ text \in TruncatedTexts

\* The value tokens an object text gives to key.
FieldTokens(text, key) ==
    {text[i + 2] : i \in {j \in 1..(Len(text) - 2) : text[j] = key /\ text[j + 1] = ":"}}

TheToken(S) == CHOOSE tok \in S : TRUE

\* C5: in the text given to parse_edgex_output, a JSON object that gives
\* "username" and "password" yields exactly those two values; a non-empty
\* object without "username" yields username "N/A"; one without "password"
\* yields password "No password found"; malformed JSON and the empty object
\* yield a parse failure whose raw_output is the text itself.
C5_CredentialParse ==
    \A r \in DOMAIN pc :
        (endpoint[r] = "generate_password" /\ Took(r, "Parse")) =>
            LET out == result[r].output
                us == FieldTokens(out, "\"username\"")
                ps == FieldTokens(out, "\"password\"")
                object == out \in ObjectTexts /\ out # <<"{", "}">>
            IN /\ (object /\ Cardinality(us) = 1 /\ Cardinality(ps) = 1) =>
                    parsed[r] = [username |-> ScalarValue(TheToken(us)),
                                 password |-> ScalarValue(TheToken(ps))]
               /\ (object /\ us # {}) =>
                    \E tok \in us : parsed[r].username = ScalarValue(tok)
               /\ (object /\ ps # {}) =>
                    \E tok \in ps : parsed[r].password = ScalarValue(tok)
               /\ (object /\ us = {}) => parsed[r].username = PyStr(<<"N/A">>)
               /\ (object /\ ps = {}) =>
                    parsed[r].password = PyStr(<<"No password found">>)
               /\ (Malformed(out) \/ Squeeze(out) = <<"{", "}">>) =>
                    /\ DOMAIN parsed[r] = {"error", "raw_output"}
                    /\ parsed[r].raw_output = out

\* An object with both fields was parsed, and so were an object lacking each
\* field, a malformed text with a blank inside and the empty object: the
\* state is one of these, each reached.
C5_Witness ==
    \E r \in DOMAIN pc :
        /\ Took(r, "Parse")
        /\ result[r].output \in ObjectTexts
        /\ Cardinality(FieldTokens(result[r].output, "\"username\"")) = 1
        /\ Cardinality(FieldTokens(result[r].output, "\"password\"")) = 1
        /\ parsed[r].username # parsed[r].password
        /\ pc[r] = "Done" /\ response[r].status_code = 200

\* The pattern "root_token"\s*:\s*"([^"]+)" as the set of texts it matches:
\* text[i..j] is the quoted key, blanks, a colon at c, blanks, a quote at q,
\* one or more characters other than the quote, and a quote at j.
IsMatch(text, i, j) ==
    /\ i + 2 <= Len(text) /\ j <= Len(text)
    /\ text[i] = Quote /\ text[i + 1] = "root_token" /\ text[i + 2] = Quote
    /\ text[j] = Quote
    /\ \E c \in (i + 3)..(j - 3) :
          /\ text[c] = ":"
          /\ \A k \in (i + 3)..(c - 1) : text[k] \in Whitespace
          /\ \E q \in (c + 1)..(j - 2) :
                /\ text[q] = Quote
                /\ \A k \in (c + 1)..(q - 1) : text[k] \in Whitespace
                /\ \A k \in (q + 1)..(j - 1) : text[k] # Quote

\* Where the match starting at i ends, 0 when there is none.
MatchEnd(text, i) ==
    IF \E j \in i..Len(text) : IsMatch(text, i, j)
    THEN CHOOSE j \in i..Len(text) : IsMatch(text, i, j)
    ELSE 0

\* The value a match text[i..j] captures: what lies between its last two
\* quotes.
Captured(text, i, j) ==
    LET q == CHOOSE k \in i..(j - 1) :
                 text[k] = Quote /\ \A m \in (k + 1)..(j - 1) : text[m] # Quote
    IN SubSeq(text, q + 1, j - 1)

\* The starts of the non-overlapping matches in order of appearance: a match
\* counts when it begins after the end of every counted match before it.
Counted(text) ==
    LET counted[i \in 0..Len(text)] ==
            IF i = 0 THEN {}
            ELSE IF MatchEnd(text, i) # 0
                    /\ \A s \in counted[i - 1] : MatchEnd(text, s) < i
                 THEN counted[i - 1] \cup {i}
                 ELSE counted[i - 1]
    IN counted[Len(text)]

\* The n-th smallest element of S.
Nth(S, n) == CHOOSE s \in S : Cardinality({u \in S : u < s}) = n - 1

\* C6: the tokens parse_root_tokens returns are the captured values of the
\* non-overlapping matches of the pattern, in order of appearance, duplicates
\* kept, nothing added, dropped or reordered; without a match the result is
\* the "No root tokens found." outcome with the raw text and no token list.
C6_TokenExtraction ==
    \A r \in DOMAIN pc :
        (endpoint[r] = "get_tokens" /\ Took(r, "Parse")) =>
            LET out == result[r].output
                starts == Counted(out)
            IN IF starts = {}
               THEN parsed[r] = [message |-> NoTokensMessage, raw_output |-> out]
               ELSE /\ DOMAIN parsed[r] = {"tokens"}
                    /\ Len(parsed[r].tokens) = Cardinality(starts)
                    /\ \A n \in 1..Cardinality(starts) :
                          parsed[r].tokens[n] =
                              Captured(out, Nth(starts, n), MatchEnd(out, Nth(starts, n)))

\* A file was parsed that holds the same token twice and a match that overlaps
\* a counted one.
C6_Witness ==
    \E r \in DOMAIN pc :
        /\ Took(r, "Parse")
        /\ "tokens" \in DOMAIN parsed[r]
        /\ Len(parsed[r].tokens) = 2
        /\ parsed[r].tokens[1] = parsed[r].tokens[2]
        /\ \E i \in 1..Len(result[r].output) :
              /\ MatchEnd(result[r].output, i) # 0
              /\ i \notin Counted(result[r].output)

\* C7: after a command that exited 0, get_tokens answers 200 {"tokens": [...]}
\* with a non-empty list exactly when the output holds a match of the
\* pattern, and otherwise 404 with the body {"message": "No root tokens
\* found."} and nothing else; the output of the example gives
\* 200 {"tokens": ["t1", "t2"]}.
C7_TokensStatus ==
    \A r \in DOMAIN pc :
        (endpoint[r] = "get_tokens" /\ pc[r] = "Done" /\ ~ Failed(proc[r])) =>
            LET out == result[r].output
                some == \E i, j \in 1..Len(out) : IsMatch(out, i, j)
            IN /\ some <=> response[r].status_code = 200
               /\ some =>
                    /\ DOMAIN response[r].content = {"tokens"}
                    /\ response[r].content.tokens # <<>>
               /\ ~ some =>
                    response[r] = JSONResponse([message |-> NoTokensMessage], 404)
               /\ out = TokensExample =>
                    response[r] = JSONResponse([tokens |-> <<<<"t1">>, <<"t2">>>>], 200)

\* The request for the file of the example has been answered.
C7_Witness ==
    \E r \in DOMAIN pc :
        /\ pc[r] = "Done" /\ result[r] = [output |-> TokensExample]
        /\ response[r].status_code = 200

=============================================================================
